---------------------------- MODULE Spec2Model ----------------------------
(***************************************************************************)
(* Tonnetz lattice engine of music-grid-game (src/game.js): the pitch      *)
(* class grid, its tessellation into major / minor triangles, the          *)
(* centering translation, point location, and the game loop that tracks    *)
(* the active triangle.                                                    *)
(*                                                                         *)
(* Coordinates.  The source computes in binary floating point with         *)
(* triHeight = triangleSize * sqrt(3) / 2.  The model keeps every          *)
(* coordinate exact by storing x in units of 1/2 and z in units of         *)
(* sqrt(3)/2, so that triWidth = 2 * triangleSize, triWidth / 2 =          *)
(* triangleSize and triHeight = triangleSize are integers, and so are the  *)
(* centroids and the centering offset.  Both units are positive, hence the *)
(* sign of every cross product computed by pointInTriangle is the sign the *)
(* source computes over the reals.  Rounding of the floating point         *)
(* operations is not modelled.                                             *)
(***************************************************************************)
EXTENDS Integers, Sequences, FiniteSets, TLC

(***************************************************************************)
(* Program constants (TonnetzSystem.constructor).                          *)
(***************************************************************************)
gridWidth == 12
gridHeight == 8
triangleSize == 3
fifthInterval == 7
majorThirdInterval == 4
baseOctave == 60

(***************************************************************************)
(* Bounds of the model.                                                    *)
(***************************************************************************)
\* point location is probed in two windows, one at the lattice's corner
\* vertex (0, 0) and one at its corner vertex (gridHeight, gridWidth): each
\* reaches ProbeMargin outside the lattice's bounding box and ProbeSpan inside
ProbeMargin == 1
ProbeSpan == 9
\* pointInTriangle is probed on the triangles of the cells (0..PitCells) x
\* (0..PitCells), this far beyond a triangle's bounding box
PitCells == 0
PitMargin == 0
\* how many times the centering step may be invoked
MaxCenterCalls == 2
\* the far probe (10000, 10000): x = 20000 halves, z = 11547 * sqrt(3)/2
FarX == 20000
FarZ == 11547
\* the window the player moves in, around its start (0, 0)
PlayerRangeX == 2
PlayerRangeZ == 13
\* the periods of the pitch class rule are examined for rows and columns
\* -PeriodRange..PeriodRange, inside, beyond and before the stored grid
PeriodRange == 3
\* getNoteName is called with the pitch classes -LookupRange..11+LookupRange
LookupRange == 2
\* the tiling is probed at every point of the lattice's bounding box and
\* TileMargin beyond it
TileMargin == 1
\* playChord is called with arrays of at most MaxChordLen notes
MaxChordLen == 3

VARIABLES
    grid,              \* TonnetzSystem.grid: row -> col -> cell
    triangles,         \* TonnetzSystem.triangles: the list of triangle records
    translations,      \* history: completed invocations of createTonnetzGrid
    query,             \* the point location call in flight, or NoQuery
    found,             \* its result: an index into triangles, or NoTriangle
    pit,               \* the pointInTriangle call in flight, or NoQuery
    triad,             \* the getMajorTriad / getMinorTriad call in flight
    lookup,            \* the getNoteName call in flight, or NoQuery
    cellCall,          \* the older layout's vertex computation in flight
    player,            \* TonnetzGame.player.position (x, z), or NoPlayer
    currentTriangle,   \* TonnetzGame.currentTriangle: an index, or NoTriangle
    highlighted,       \* the triangle meshes drawn with the active emissive
    display,           \* the chord-display element: chord name, colour, notes
    initialized,       \* AudioSystem.initialized
    audioContext,      \* how many AudioContext objects init() has created
    activeOscillators, \* AudioSystem.activeOscillators: the notes held
    played,            \* history: the notes of the last playChord that sounded
    located,           \* history: what the last checkPlayerPosition located
    event              \* history: what the last checkPlayerPosition emitted

engineVars == <<grid, triangles, translations>>
probeVars == <<query, found, pit, triad, lookup, cellCall>>
gameVars == <<player, currentTriangle, highlighted, display, located, event>>
audioVars == <<initialized, audioContext, activeOscillators, played>>
vars == <<engineVars, probeVars, gameVars, audioVars>>

NoQuery == <<>>
\* findTriangleAtPosition's null
NoTriangle == 0

(***************************************************************************)
(* PitchClassGrid                                                          *)
(***************************************************************************)
pitchClassToName ==
    <<"C", "Db", "D", "Eb", "E", "F", "F#", "G", "Ab", "A", "Bb", "B">>

\* the sharp spellings of the older source
noteNames_sharps ==
    <<"C", "C#", "D", "D#", "E", "F", "F#", "G", "G#", "A", "A#", "B">>

\* the table getChordName reads
noteNames ==
    <<"C", "Db", "D", "Eb", "E", "F", "F#", "G", "Ab", "A", "Bb", "B">>

\* JavaScript's %: the result takes the sign of the dividend
JsMod(a, b) == IF a >= 0 THEN a % b ELSE -((-a) % b)

getNoteName_wrapped(pitchClass) == pitchClassToName[(pitchClass % 12) + 1]

\* an index outside the table reads undefined: the error is logged and "?"
\* is returned
getNoteName(pitchClass) ==
    IF pitchClass \in 0..(Len(pitchClassToName) - 1)
    THEN pitchClassToName[pitchClass + 1]
    ELSE "?"

pitchClassAt_swapped(row, col) ==
    JsMod(JsMod(row * fifthInterval + col * majorThirdInterval, 12) + 12, 12)

pitchClassAt_unreduced(row, col) ==
    row * majorThirdInterval + col * fifthInterval

pitchClassAt(row, col) ==
    JsMod(JsMod(row * majorThirdInterval + col * fifthInterval, 12) + 12, 12)

generateGrid ==
    [row \in 0..gridHeight |->
        [col \in 0..gridWidth |->
            [pitchClass |-> pitchClassAt(row, col),
             noteName   |-> getNoteName(pitchClassAt(row, col))]]]

(***************************************************************************)
(* TonnetzTessellation                                                     *)
(***************************************************************************)
\* x in units of 1/2
triWidth == 2 * triangleSize
\* z in units of sqrt(3)/2: triangleSize * sqrt(3) / 2
triHeight == triangleSize

\* the rule of the older layout: odd rows shifted by half a triangle
getVertexPosition_parity(row, col) ==
    [x |-> col * triWidth + (row % 2) * (triWidth \div 2),
     z |-> row * triHeight]

getVertexPosition(row, col) ==
    [x |-> col * triWidth + row * (triWidth \div 2),
     z |-> row * triHeight]

vertex(pos, cell) ==
    [x |-> pos.x, z |-> pos.z,
     pitchClass |-> cell.pitchClass, noteName |-> cell.noteName]

centerOf_halved(a, b, c) ==
    [x |-> (a.x + b.x + c.x) \div 2, z |-> (a.z + b.z + c.z) \div 2]

\* the division by 3 is exact for every triangle of the lattice
centerOf(a, b, c) ==
    [x |-> (a.x + b.x + c.x) \div 3, z |-> (a.z + b.z + c.z) \div 3]

majorTriangle_rootPosition(g, row, col) ==
    LET v0 == getVertexPosition(row, col)
        v1 == getVertexPosition(row, col + 1)
        v2 == getVertexPosition(row + 1, col)
        cell0 == g[row][col]
        cell1 == g[row][col + 1]
        cell2 == g[row + 1][col]
    IN  [type |-> "major",
         vertices |-> <<vertex(v0, cell0), vertex(v1, cell1), vertex(v2, cell2)>>,
         center |-> centerOf(v0, v1, v2),
         chord |-> <<baseOctave + cell0.pitchClass,
                     baseOctave + cell1.pitchClass,
                     baseOctave + cell2.pitchClass>>,
         chordName |-> cell0.noteName,
         row |-> row, col |-> col]

majorTriangle(g, row, col) ==
    LET v0 == getVertexPosition(row, col)
        v1 == getVertexPosition(row, col + 1)
        v2 == getVertexPosition(row + 1, col)
        cell0 == g[row][col]
        cell1 == g[row][col + 1]
        cell2 == g[row + 1][col]
    IN  [type |-> "major",
         vertices |-> <<vertex(v0, cell0), vertex(v1, cell1), vertex(v2, cell2)>>,
         center |-> centerOf(v0, v1, v2),
         chord |-> <<baseOctave + cell0.pitchClass,
                     baseOctave + cell2.pitchClass,
                     baseOctave + cell1.pitchClass>>,
         chordName |-> cell0.noteName,
         row |-> row, col |-> col]

minorTriangle_cornerCell(g, row, col) ==
    LET v1 == getVertexPosition(row, col + 1)
        v2 == getVertexPosition(row + 1, col)
        v3 == getVertexPosition(row + 1, col + 1)
        cell1 == g[row][col + 1]
        cell2 == g[row + 1][col]
        cell3 == g[row][col]
    IN  [type |-> "minor",
         vertices |-> <<vertex(v2, cell2), vertex(v1, cell1), vertex(v3, cell3)>>,
         center |-> centerOf(v2, v1, v3),
         chord |-> <<baseOctave + cell2.pitchClass,
                     baseOctave + cell1.pitchClass,
                     baseOctave + cell3.pitchClass>>,
         chordName |-> cell2.noteName \o "m",
         row |-> row, col |-> col]

minorTriangle_majorKey(g, row, col) ==
    LET v1 == getVertexPosition(row, col + 1)
        v2 == getVertexPosition(row + 1, col)
        v3 == getVertexPosition(row + 1, col + 1)
        cell1 == g[row][col + 1]
        cell2 == g[row + 1][col]
        cell3 == g[row + 1][col + 1]
    IN  [type |-> "major",
         vertices |-> <<vertex(v2, cell2), vertex(v1, cell1), vertex(v3, cell3)>>,
         center |-> centerOf(v2, v1, v3),
         chord |-> <<baseOctave + cell2.pitchClass,
                     baseOctave + cell1.pitchClass,
                     baseOctave + cell3.pitchClass>>,
         chordName |-> cell2.noteName \o "m",
         row |-> row, col |-> col]

minorTriangle_wrongRoot(g, row, col) ==
    LET v1 == getVertexPosition(row, col + 1)
        v2 == getVertexPosition(row + 1, col)
        v3 == getVertexPosition(row + 1, col + 1)
        cell1 == g[row][col + 1]
        cell2 == g[row + 1][col]
        cell3 == g[row + 1][col + 1]
    IN  [type |-> "minor",
         vertices |-> <<vertex(v2, cell2), vertex(v1, cell1), vertex(v3, cell3)>>,
         center |-> centerOf(v2, v1, v3),
         chord |-> <<baseOctave + cell1.pitchClass,
                     baseOctave + cell2.pitchClass,
                     baseOctave + cell3.pitchClass>>,
         chordName |-> cell1.noteName \o "m",
         row |-> row, col |-> col]

minorTriangle(g, row, col) ==
    LET v1 == getVertexPosition(row, col + 1)
        v2 == getVertexPosition(row + 1, col)
        v3 == getVertexPosition(row + 1, col + 1)
        cell1 == g[row][col + 1]
        cell2 == g[row + 1][col]
        cell3 == g[row + 1][col + 1]
    IN  [type |-> "minor",
         vertices |-> <<vertex(v2, cell2), vertex(v1, cell1), vertex(v3, cell3)>>,
         center |-> centerOf(v2, v1, v3),
         chord |-> <<baseOctave + cell2.pitchClass,
                     baseOctave + cell1.pitchClass,
                     baseOctave + cell3.pitchClass>>,
         chordName |-> cell2.noteName \o "m",
         row |-> row, col |-> col]

NumTriangles == 2 * gridWidth * gridHeight

\* the list position (1-based) of the triangle of a cell: row-major cell
\* order, the major triangle pushed before the minor one
indexOf(row, col, type) ==
    2 * (row * gridWidth + col) + (IF type = "major" THEN 1 ELSE 2)

generateTriangles(g) ==
    [k \in 1..NumTriangles |->
        LET cell == (k - 1) \div 2
            row  == cell \div gridWidth
            col  == cell % gridWidth
        IN  IF k % 2 = 1 THEN majorTriangle(g, row, col)
                         ELSE minorTriangle(g, row, col)]

(***************************************************************************)
(* The older layout (src/unnamed/part_000): odd rows are offset by half a   *)
(* triangle, and every cell computes its own four vertex positions.         *)
(***************************************************************************)
parityVertices_cumulative(row, col) ==
    LET xOffset == row * (triWidth \div 2)
    IN  [v0 |-> [x |-> col * triWidth + xOffset, z |-> row * triHeight],
         v1 |-> [x |-> (col + 1) * triWidth + xOffset, z |-> row * triHeight],
         v2 |-> [x |-> col * triWidth + (triWidth \div 2) + xOffset,
                 z |-> (row + 1) * triHeight],
         v3 |-> [x |-> (col + 1) * triWidth + (triWidth \div 2) + xOffset,
                 z |-> (row + 1) * triHeight]]

\* v0 is grid vertex (row, col), v1 (row, col+1), v2 (row+1, col) and v3
\* (row+1, col+1), as the cell (row, col) places them
parityVertices(row, col) ==
    LET xOffset == (row % 2) * (triWidth \div 2)
    IN  [v0 |-> [x |-> col * triWidth + xOffset, z |-> row * triHeight],
         v1 |-> [x |-> (col + 1) * triWidth + xOffset, z |-> row * triHeight],
         v2 |-> [x |-> col * triWidth + (triWidth \div 2) + xOffset,
                 z |-> (row + 1) * triHeight],
         v3 |-> [x |-> (col + 1) * triWidth + (triWidth \div 2) + xOffset,
                 z |-> (row + 1) * triHeight]]

(***************************************************************************)
(* ChordModel                                                              *)
(***************************************************************************)
\* noteNames[midiNotes[0] % 12], with "m" appended unless the type is major;
\* an index outside the table reads undefined
getChordName(midiNotes, type) ==
    LET rootNote == JsMod(midiNotes[1], 12)
        noteName == IF rootNote \in 0..(Len(noteNames) - 1)
                    THEN noteNames[rootNote + 1]
                    ELSE "undefined"
    IN  IF type = "major" THEN noteName ELSE noteName \o "m"

\* JavaScript values as far as getMajorTriad / getMinorTriad compute with
\* them: numbers, strings, and plain objects, whose conversion to a string
\* is "[object Object]"
JsNumber(n) == [kind |-> "number", num |-> n, str |-> ""]
JsString(s) == [kind |-> "string", num |-> 0, str |-> s]
JsObject(o) == [kind |-> "object", num |-> 0, str |-> "[object Object]"]

JsToString(v) == IF v.kind = "number" THEN ToString(v.num) ELSE v.str

\* JavaScript's +: the sum of two numbers, otherwise the concatenation of
\* the operands' string conversions
JsPlus(a, b) ==
    IF a.kind = "number" /\ b.kind = "number"
    THEN JsNumber(a.num + b.num)
    ELSE JsString(JsToString(a) \o JsToString(b))

\* root is the grid cell, an object { pitchClass, noteName }
getMajorTriad(g, row, col) ==
    LET root == JsObject(g[row][col])
    IN  <<JsPlus(JsNumber(60), root),
          JsPlus(JsPlus(JsNumber(60), root), JsNumber(4)),
          JsPlus(JsPlus(JsNumber(60), root), JsNumber(7))>>

getMinorTriad(g, row, col) ==
    LET root == JsObject(g[row][col])
    IN  <<JsPlus(JsNumber(60), root),
          JsPlus(JsPlus(JsNumber(60), root), JsNumber(3)),
          JsPlus(JsPlus(JsNumber(60), root), JsNumber(7))>>

(***************************************************************************)
(* The centering step of TonnetzGame.createTonnetzGrid                     *)
(***************************************************************************)
offsetX == -((gridWidth * triWidth) \div 2)
offsetZ == -((gridHeight * triHeight) \div 2)

translateVertex(v) ==
    [x |-> v.x + offsetX, z |-> v.z + offsetZ,
     pitchClass |-> v.pitchClass, noteName |-> v.noteName]

createTonnetzGrid_verticesOnly(tris) ==
    [k \in 1..Len(tris) |->
        [tris[k] EXCEPT
            !.vertices = [i \in 1..Len(@) |-> translateVertex(@[i])]]]

createTonnetzGrid(tris) ==
    [k \in 1..Len(tris) |->
        [tris[k] EXCEPT
            !.center = [x |-> @.x + offsetX, z |-> @.z + offsetZ],
            !.vertices = [i \in 1..Len(@) |-> translateVertex(@[i])]]]

(***************************************************************************)
(* PointLocator                                                            *)
(***************************************************************************)
sign_absolute(p1, p2, p3) ==
    p1.x * (p2.z - p3.z) - (p2.x - p3.x) * p1.z

sign(p1, p2, p3) ==
    (p1.x - p3.x) * (p2.z - p3.z) - (p2.x - p3.x) * (p1.z - p3.z)

pointInTriangle_strict(px, pz, triangle) ==
    LET v  == triangle.vertices
        p  == [x |-> px, z |-> pz]
        d1 == sign(p, v[1], v[2])
        d2 == sign(p, v[2], v[3])
        d3 == sign(p, v[3], v[1])
    IN  (d1 > 0 /\ d2 > 0 /\ d3 > 0) \/ (d1 < 0 /\ d2 < 0 /\ d3 < 0)

pointInTriangle(px, pz, triangle) ==
    LET v  == triangle.vertices
        p  == [x |-> px, z |-> pz]
        d1 == sign(p, v[1], v[2])
        d2 == sign(p, v[2], v[3])
        d3 == sign(p, v[3], v[1])
        hasNeg == (d1 < 0) \/ (d2 < 0) \/ (d3 < 0)
        hasPos == (d1 > 0) \/ (d2 > 0) \/ (d3 > 0)
    IN  ~(hasNeg /\ hasPos)

\* the list positions, in list order, of the triangles that contain the point
matches(tris, x, z) ==
    SelectSeq([k \in 1..Len(tris) |-> k],
              LAMBDA k : pointInTriangle(x, z, tris[k]))

firstOr(hits, none) == IF hits = <<>> THEN none ELSE Head(hits)

lastOr(hits, none) == IF hits = <<>> THEN none ELSE hits[Len(hits)]

findTriangleAtPosition_lastMatch(tris, x, z) ==
    lastOr(matches(tris, x, z), NoTriangle)

findTriangleAtPosition_fallback(tris, x, z) ==
    firstOr(matches(tris, x, z), Len(tris))

\* the for-of loop returns at its first match, in list order; null when the
\* loop runs out
findTriangleAtPosition(tris, x, z) ==
    firstOr(matches(tris, x, z), NoTriangle)

(***************************************************************************)
(* AudioSystem                                                             *)
(***************************************************************************)
initAudio_unguarded(isInitialized, contexts) ==
    [initialized |-> TRUE, audioContext |-> contexts + 1]

\* init(): returns at once when initialized, otherwise creates the
\* AudioContext and the master gain and sets initialized
initAudio(isInitialized, contexts) ==
    IF isInitialized
    THEN [initialized |-> isInitialized, audioContext |-> contexts]
    ELSE [initialized |-> TRUE, audioContext |-> contexts + 1]

\* stopAll: every held voice is silenced and the list is emptied
stopAll(oscillators) == <<>>

playChord_accumulating(isInitialized, oscillators, midiNotes) ==
    IF ~isInitialized THEN oscillators
    ELSE oscillators \o midiNotes

\* playChord(midiNotes): dropped before init; otherwise the held voices are
\* released and one voice per note is pushed
playChord(isInitialized, oscillators, midiNotes) ==
    IF ~isInitialized THEN oscillators
    ELSE stopAll(oscillators) \o midiNotes

(***************************************************************************)
(* TonnetzGame.checkPlayerPosition                                         *)
(***************************************************************************)
NoPlayer == <<>>
NoEvent == <<>>
NoUpdate == NoTriangle - 1
NoDisplay == [chordName |-> "", color |-> "", notes |-> ""]

joinNoteNames_reversed(vs) ==
    vs[3].noteName \o " - " \o vs[2].noteName \o " - " \o vs[1].noteName

\* triangle.vertices.map(v => v.noteName).join(' - ')
joinNoteNames(vs) ==
    vs[1].noteName \o " - " \o vs[2].noteName \o " - " \o vs[3].noteName

checkPlayerPosition_always(tris, pos, current) ==
    LET triangle == findTriangleAtPosition(tris, pos.x, pos.z)
    IN  [triangle |-> triangle, changed |-> triangle # NoTriangle]

\* the local `triangle` and whether the region-change branch is taken
checkPlayerPosition(tris, pos, current) ==
    LET triangle == findTriangleAtPosition(tris, pos.x, pos.z)
    IN  [triangle |-> triangle,
         changed  |-> triangle # NoTriangle /\ triangle # current]

(***************************************************************************)
(* Initial state: the fields of a TonnetzGame whose constructor has built  *)
(* its AudioSystem and TonnetzSystem and has not yet run init().           *)
(***************************************************************************)
Init ==
    /\ grid = generateGrid
    /\ triangles = generateTriangles(generateGrid)
    /\ translations = 0
    /\ query = NoQuery
    /\ found = NoTriangle
    /\ pit = NoQuery
    /\ triad = NoQuery
    /\ lookup = NoQuery
    /\ cellCall = NoQuery
    /\ player = NoPlayer
    /\ currentTriangle = NoTriangle
    /\ highlighted = {}
    /\ display = NoDisplay
    /\ initialized = FALSE
    /\ audioContext = 0
    /\ activeOscillators = <<>>
    /\ played = NoEvent
    /\ located = NoUpdate
    /\ event = NoEvent

(***************************************************************************)
(* Operations on the lattice engine.                                       *)
(***************************************************************************)
\* where the lattice vertex (0, 0) currently is
latticeOrigin == triangles[1].vertices[1]

latticeSpanX == gridWidth * triWidth + gridHeight * (triWidth \div 2)
latticeSpanZ == gridHeight * triHeight

window(x0, x1, z0, z1) == (x0..x1) \X (z0..z1)

ProbePoints ==
    LET o == latticeOrigin
    IN  window(o.x - ProbeMargin, o.x + ProbeSpan,
               o.z - ProbeMargin, o.z + ProbeSpan)
        \cup window(o.x + latticeSpanX - ProbeSpan, o.x + latticeSpanX + ProbeMargin,
                    o.z + latticeSpanZ - ProbeSpan, o.z + latticeSpanZ + ProbeMargin)
        \cup {<<triangles[k].center.x, triangles[k].center.z>> :
                    k \in 1..Len(triangles)}

FarPoints == {<<FarX, FarZ>>, <<-FarX, FarZ>>, <<FarX, -FarZ>>}

PitPoints(k) ==
    LET v  == triangles[k].vertices
        xs == {v[i].x : i \in 1..3}
        zs == {v[i].z : i \in 1..3}
        lo(S) == CHOOSE m \in S : \A n \in S : m <= n
        hi(S) == CHOOSE m \in S : \A n \in S : m >= n
    IN  ((lo(xs) - PitMargin)..(hi(xs) + PitMargin))
            \X ((lo(zs) - PitMargin)..(hi(zs) + PitMargin))

PitTriangles ==
    {indexOf(row, col, type) :
        row \in 0..PitCells, col \in 0..PitCells, type \in {"major", "minor"}}

Idle ==
    /\ query = NoQuery
    /\ pit = NoQuery
    /\ triad = NoQuery
    /\ lookup = NoQuery
    /\ cellCall = NoQuery

\* createTonnetzGrid: the translation of every triangle; the code has no
\* guard against a repeated invocation
CreateTonnetzGrid ==
    /\ Idle
    /\ translations < MaxCenterCalls
    /\ triangles' = createTonnetzGrid(triangles)
    /\ translations' = translations + 1
    /\ UNCHANGED <<grid, probeVars, gameVars, audioVars>>

\* a call of findTriangleAtPosition(x, z)
FindTriangleAtPosition(x, z) ==
    /\ query' = <<x, z>>
    /\ found' = findTriangleAtPosition(triangles, x, z)
    /\ UNCHANGED <<engineVars, pit, triad, lookup, cellCall, gameVars, audioVars>>

\* a call of pointInTriangle(px, pz, triangles[k])
PointInTriangle(px, pz, k) ==
    /\ pit' = [x |-> px, z |-> pz, triangle |-> k,
               inside |-> pointInTriangle(px, pz, triangles[k])]
    /\ UNCHANGED <<engineVars, query, found, triad, lookup, cellCall, gameVars,
                   audioVars>>

\* a call of getMajorTriad(row, col)
GetMajorTriad(row, col) ==
    /\ triad' = [type |-> "major", row |-> row, col |-> col,
                 notes |-> getMajorTriad(grid, row, col)]
    /\ UNCHANGED <<engineVars, query, found, pit, lookup, cellCall, gameVars,
                   audioVars>>

\* a call of getMinorTriad(row, col)
GetMinorTriad(row, col) ==
    /\ triad' = [type |-> "minor", row |-> row, col |-> col,
                 notes |-> getMinorTriad(grid, row, col)]
    /\ UNCHANGED <<engineVars, query, found, pit, lookup, cellCall, gameVars,
                   audioVars>>

\* a call of getNoteName(pitchClass); the function has no throw, every call
\* returns
GetNoteName(pitchClass) ==
    /\ lookup' = [pitchClass |-> pitchClass, returned |-> TRUE,
                  name |-> getNoteName(pitchClass)]
    /\ UNCHANGED <<engineVars, query, found, pit, triad, cellCall, gameVars,
                   audioVars>>

\* the older generateTriangles computes the vertex positions of cell
\* (row, col)
ParityVertices(row, col) ==
    /\ cellCall' = [row |-> row, col |-> col,
                    vertices |-> parityVertices(row, col)]
    /\ UNCHANGED <<engineVars, query, found, pit, triad, lookup, gameVars,
                   audioVars>>

Probe ==
    /\ Idle
    /\ \E p \in ProbePoints \cup FarPoints : FindTriangleAtPosition(p[1], p[2])

ProbeTriangle ==
    /\ Idle
    /\ \E k \in PitTriangles :
          \E p \in PitPoints(k) : PointInTriangle(p[1], p[2], k)

ProbeTriad ==
    /\ Idle
    /\ \E row \in 0..gridHeight : \E col \in 0..gridWidth :
          GetMajorTriad(row, col) \/ GetMinorTriad(row, col)

ProbeCell ==
    /\ Idle
    /\ \E row \in 0..(gridHeight - 1) : \E col \in 0..(gridWidth - 1) :
          ParityVertices(row, col)

ProbeNoteName ==
    /\ Idle
    /\ \E pitchClass \in (0 - LookupRange)..(11 + LookupRange) :
          GetNoteName(pitchClass)

\* the caller takes the result
Return ==
    /\ ~Idle
    /\ query' = NoQuery
    /\ found' = NoTriangle
    /\ pit' = NoQuery
    /\ triad' = NoQuery
    /\ lookup' = NoQuery
    /\ cellCall' = NoQuery
    /\ UNCHANGED <<engineVars, gameVars, audioVars>>

Next ==
    \/ CreateTonnetzGrid
    \/ Probe
    \/ ProbeTriangle
    \/ ProbeTriad
    \/ ProbeNoteName
    \/ ProbeCell
    \/ Return

Spec == Init /\ [][Next]_vars

(***************************************************************************)
(* Point location over the whole lattice.                                  *)
(***************************************************************************)
BoxPoints ==
    LET o == latticeOrigin
    IN  window(o.x - TileMargin, o.x + latticeSpanX + TileMargin,
               o.z - TileMargin, o.z + latticeSpanZ + TileMargin)

ProbeBox ==
    /\ Idle
    /\ \E p \in BoxPoints \cup FarPoints : FindTriangleAtPosition(p[1], p[2])

NextTiling ==
    \/ CreateTonnetzGrid
    \/ ProbeBox
    \/ Return

SpecTiling == Init /\ [][NextTiling]_vars

(***************************************************************************)
(* The AudioSystem on its own: init(), playChord(midiNotes), stopAll().     *)
(***************************************************************************)
RECURSIVE SeqsUpTo(_, _)
\* the arrays of at most n elements of S
SeqsUpTo(S, n) ==
    IF n = 0 THEN {<<>>}
    ELSE LET shorter == SeqsUpTo(S, n - 1)
         IN  shorter \cup {Append(q, e) : q \in shorter, e \in S}

\* the notes of the two triangles of cell (0, 0): 60 + pitch class of its
\* four corners
ChordNotes == {baseOctave + pitchClassAt(row, col) : row \in 0..1, col \in 0..1}

ChordInputs == SeqsUpTo(ChordNotes, MaxChordLen)

\* init(): returns at once when already initialized
AudioInit ==
    /\ initialized' = initAudio(initialized, audioContext).initialized
    /\ audioContext' = initAudio(initialized, audioContext).audioContext
    /\ UNCHANGED <<engineVars, probeVars, gameVars, activeOscillators, played>>

PlayChord(midiNotes) ==
    /\ activeOscillators' = playChord(initialized, activeOscillators, midiNotes)
    /\ played' = IF initialized THEN midiNotes ELSE played
    /\ UNCHANGED <<engineVars, probeVars, gameVars, initialized, audioContext>>

StopAll ==
    /\ activeOscillators' = stopAll(activeOscillators)
    /\ UNCHANGED <<engineVars, probeVars, gameVars, initialized, audioContext,
                   played>>

NextAudio ==
    \/ AudioInit
    \/ \E midiNotes \in ChordInputs : PlayChord(midiNotes)
    \/ StopAll

SpecAudio == Init /\ [][NextAudio]_vars

(***************************************************************************)
(* The game: init(), the start button and the update loop.                 *)
(***************************************************************************)
\* TonnetzGame.init(): createTonnetzGrid(), then createPlayer() at (0, 0)
GameInit ==
    /\ Idle
    /\ player = NoPlayer
    /\ triangles' = createTonnetzGrid(triangles)
    /\ translations' = translations + 1
    /\ player' = [x |-> 0, z |-> 0]
    /\ UNCHANGED <<grid, probeVars, currentTriangle, highlighted, display,
                   located, event, audioVars>>

\* the start button's click handler, registered after init():
\* AudioSystem.init() is a no-op once initialized
StartClick ==
    /\ Idle
    /\ player # NoPlayer
    /\ initialized' = initAudio(initialized, audioContext).initialized
    /\ audioContext' = initAudio(initialized, audioContext).audioContext
    /\ UNCHANGED <<engineVars, probeVars, gameVars, activeOscillators, played>>

\* updatePlayer(): the velocity integration moves the player by (dx, dz),
\* then checkPlayerPosition() runs.  The floating point velocity (keys,
\* playerSpeed, friction) is abstracted to a displacement of at most one
\* unit per axis and frame, within the window of the model.
UpdatePlayer(dx, dz) ==
    /\ Idle
    /\ player # NoPlayer
    /\ \E pos \in {[x |-> player.x + dx, z |-> player.z + dz]} :
       \E res \in {checkPlayerPosition(triangles, pos, currentTriangle)} :
       LET t == triangles[res.triangle]
       IN  /\ pos.x \in (0 - PlayerRangeX)..PlayerRangeX
           /\ pos.z \in (0 - PlayerRangeZ)..PlayerRangeZ
           /\ player' = pos
           /\ located' = res.triangle
           /\ IF res.changed
              THEN /\ currentTriangle' = res.triangle
                   /\ highlighted' = {res.triangle}
                   /\ activeOscillators' =
                          playChord(initialized, activeOscillators, t.chord)
                   /\ played' = IF initialized THEN t.chord ELSE played
                   /\ display' =
                          [chordName |-> t.chordName,
                           color |-> IF t.type = "major" THEN "#4ecdc4"
                                                         ELSE "#a855f7",
                           notes |-> joinNoteNames(t.vertices)]
                   /\ event' = [chord |-> t.chord, chordName |-> t.chordName,
                                highlight |-> res.triangle]
              ELSE /\ UNCHANGED <<currentTriangle, highlighted,
                                  activeOscillators, played, display>>
                   /\ event' = NoEvent
    /\ UNCHANGED <<engineVars, probeVars, initialized, audioContext>>

Animate == \E dx \in -1..1 : \E dz \in -1..1 : UpdatePlayer(dx, dz)

FarProbe ==
    /\ Idle
    /\ \E p \in FarPoints : FindTriangleAtPosition(p[1], p[2])

NextGame ==
    \/ GameInit
    \/ StartClick
    \/ Animate
    \/ FarProbe
    \/ Return

SpecGame == Init /\ [][NextGame]_vars

(***************************************************************************)
(* Properties                                                              *)
(***************************************************************************)
\* the (row, col, type) key of a triangle
key(t) == <<t.row, t.col, t.type>>

Cells == (0..(gridHeight - 1)) \X (0..(gridWidth - 1))

\* C1: every cell (row, col) of the generated grid, 0 <= row <= gridHeight and
\* 0 <= col <= gridWidth, stores pitchClass = ((row*4 + col*7) mod 12 + 12)
\* mod 12, an integer in [0, 11].
C1_GridPitchClass ==
    /\ DOMAIN grid = 0..gridHeight
    /\ \A row \in 0..gridHeight :
        /\ DOMAIN grid[row] = 0..gridWidth
        /\ \A col \in 0..gridWidth :
            /\ grid[row][col].pitchClass = (((row * 4 + col * 7) % 12) + 12) % 12
            /\ grid[row][col].pitchClass \in 0..11

C1_Witness ==
    /\ grid[0][0].pitchClass = 0
    /\ grid[1][1].pitchClass = 11
    /\ grid[gridHeight][gridWidth].pitchClass = 8

\* C2: every tessellation cell (row, col) has a 'major' triangle whose
\* vertices are the grid cells (row,col), (row,col+1), (row+1,col) in that
\* order, whose chord is [60+pc(row,col), 60+pc(row+1,col), 60+pc(row,col+1)]
\* and whose chordName is noteName(pc(row,col)); the one at (0,0) is
\* [60, 64, 67], "C".
C2_atCell(t, n, row, col) ==
    /\ t.vertices[n].pitchClass = grid[row][col].pitchClass
    /\ t.vertices[n].noteName = grid[row][col].noteName
    /\ t.vertices[n].x - latticeOrigin.x = getVertexPosition(row, col).x
    /\ t.vertices[n].z - latticeOrigin.z = getVertexPosition(row, col).z

C2_MajorTriangles ==
    /\ \A c \in Cells :
        LET row == c[1]
            col == c[2]
            t   == triangles[indexOf(row, col, "major")]
        IN  /\ key(t) = <<row, col, "major">>
            /\ Len(t.vertices) = 3
            /\ C2_atCell(t, 1, row, col)
            /\ C2_atCell(t, 2, row, col + 1)
            /\ C2_atCell(t, 3, row + 1, col)
            /\ t.chord = <<60 + grid[row][col].pitchClass,
                           60 + grid[row + 1][col].pitchClass,
                           60 + grid[row][col + 1].pitchClass>>
            /\ t.chordName = getNoteName(grid[row][col].pitchClass)
    /\ triangles[indexOf(0, 0, "major")].chord = <<60, 64, 67>>
    /\ triangles[indexOf(0, 0, "major")].chordName = "C"

C2_Witness ==
    /\ translations = 1
    /\ \E k \in 1..Len(triangles) :
        /\ key(triangles[k]) = <<gridHeight - 1, gridWidth - 1, "major">>
        /\ triangles[k].chord = <<69, 61, 64>>
        /\ triangles[k].chordName = "A"

\* C3: every tessellation cell (row, col) has a 'minor' triangle whose
\* vertices are the grid cells (row+1,col), (row,col+1), (row+1,col+1) in
\* that order, whose chord is [60+pc(row+1,col), 60+pc(row,col+1),
\* 60+pc(row+1,col+1)] and whose chordName is noteName(pc(row+1,col)) + "m";
\* the one at (0,0) is [64, 67, 71], "Em".
C3_MinorTriangles ==
    /\ \A c \in Cells :
        LET row == c[1]
            col == c[2]
            t   == triangles[indexOf(row, col, "minor")]
        IN  /\ key(t) = <<row, col, "minor">>
            /\ Len(t.vertices) = 3
            /\ C2_atCell(t, 1, row + 1, col)
            /\ C2_atCell(t, 2, row, col + 1)
            /\ C2_atCell(t, 3, row + 1, col + 1)
            /\ t.chord = <<60 + grid[row + 1][col].pitchClass,
                           60 + grid[row][col + 1].pitchClass,
                           60 + grid[row + 1][col + 1].pitchClass>>
            /\ t.chordName = getNoteName(grid[row + 1][col].pitchClass) \o "m"
    /\ triangles[indexOf(0, 0, "minor")].chord = <<64, 67, 71>>
    /\ triangles[indexOf(0, 0, "minor")].chordName = "Em"

C3_Witness ==
    /\ translations = 1
    /\ \E k \in 1..Len(triangles) :
        /\ key(triangles[k]) = <<1, 2, "minor">>
        /\ triangles[k].chordName = "Bbm"
        /\ triangles[k].chord = <<70, 61, 65>>

\* C4: every triangle is the triad its type says: with chord = [root, third,
\* fifth], (third - root) mod 12 is 4 for a major and 3 for a minor triangle,
\* and (fifth - root) mod 12 is 7 for both.
C4_Triads ==
    \A k \in 1..Len(triangles) :
        LET t == triangles[k]
        IN  /\ t.type \in {"major", "minor"}
            /\ (t.chord[2] - t.chord[1]) % 12 = (IF t.type = "major" THEN 4 ELSE 3)
            /\ (t.chord[3] - t.chord[1]) % 12 = 7

\* a major and a minor triangle whose third lies below the root in the octave
C4_Witness ==
    \E k, m \in 1..Len(triangles) :
        /\ triangles[k].type = "major"
        /\ triangles[k].chord[2] < triangles[k].chord[1]
        /\ triangles[m].type = "minor"
        /\ triangles[m].chord[3] < triangles[m].chord[1]

\* C5: every triangle of the list has exactly 3 vertices and a chord of
\* exactly 3 notes, each an integer in [60, 71].
C5_ChordShape ==
    /\ Len(triangles) = 2 * gridWidth * gridHeight
    /\ \A k \in 1..Len(triangles) :
        /\ Len(triangles[k].vertices) = 3
        /\ Len(triangles[k].chord) = 3
        /\ \A n \in 1..3 : triangles[k].chord[n] \in 60..71

C5_Witness ==
    \E k, m \in 1..Len(triangles) :
        /\ triangles[k].chord[1] = 60
        /\ triangles[m].chord[3] = 71

\* C6: pointInTriangle(px, pz, triangle) is true exactly when the signed
\* areas d1 = cross(P,v0,v1), d2 = cross(P,v1,v2), d3 = cross(P,v2,v0) do not
\* hold both a negative and a positive value; a point on an edge or on a
\* vertex of the triangle is reported inside.
C6_cross(a, b, c) == (a.x - c.x) * (b.z - c.z) - (b.x - c.x) * (a.z - c.z)

C6_between(u, a, b) == (a <= u /\ u <= b) \/ (b <= u /\ u <= a)

C6_onSegment(p, a, b) ==
    /\ C6_cross(p, a, b) = 0
    /\ C6_between(p.x, a.x, b.x)
    /\ C6_between(p.z, a.z, b.z)

C6_onBoundary(p, v) ==
    \/ C6_onSegment(p, v[1], v[2])
    \/ C6_onSegment(p, v[2], v[3])
    \/ C6_onSegment(p, v[3], v[1])

C6_PointInTriangle ==
    pit # NoQuery =>
        LET v  == triangles[pit.triangle].vertices
            p  == [x |-> pit.x, z |-> pit.z]
            ds == {C6_cross(p, v[1], v[2]), C6_cross(p, v[2], v[3]),
                   C6_cross(p, v[3], v[1])}
        IN  /\ pit.inside = ~((\E d \in ds : d < 0) /\ (\E d \in ds : d > 0))
            /\ C6_onBoundary(p, v) => pit.inside

\* a point of an edge that is no vertex, reported inside
C6_Witness ==
    /\ pit # NoQuery
    /\ LET v == triangles[pit.triangle].vertices
           p == [x |-> pit.x, z |-> pit.z]
       IN  /\ C6_onSegment(p, v[2], v[3])
           /\ \A n \in 1..3 : <<p.x, p.z>> # <<v[n].x, v[n].z>>
           /\ pit.inside

\* C7: findTriangleAtPosition(x, z) returns the first triangle, in list order,
\* that contains the point: the returned triangle contains it and no triangle
\* with a smaller index does; the list is in row-major cell order, major
\* before minor; null when no triangle contains the point.
C7_FirstMatch ==
    /\ \A k \in 1..Len(triangles) :
        k = 2 * (triangles[k].row * gridWidth + triangles[k].col)
              + (IF triangles[k].type = "major" THEN 1 ELSE 2)
    /\ query # NoQuery =>
        /\ found \in 0..Len(triangles)
        /\ found # NoTriangle =>
               pointInTriangle(query[1], query[2], triangles[found])
        /\ \A j \in 1..Len(triangles) :
               (found = NoTriangle \/ j < found)
                   => ~pointInTriangle(query[1], query[2], triangles[j])

\* a point shared by several triangles: the first of them is returned
C7_Witness ==
    /\ query # NoQuery
    /\ found # NoTriangle
    /\ \E j \in (found + 1)..Len(triangles) :
           pointInTriangle(query[1], query[2], triangles[j])

\* C8: for every triangle T, findTriangleAtPosition(T.center.x, T.center.z)
\* returns a triangle with T's (row, col, type), before and after the
\* centering translation.
C8_CentroidSelfContainment ==
    query # NoQuery =>
        \A k \in 1..Len(triangles) :
            <<triangles[k].center.x, triangles[k].center.z>> = query
                => /\ found # NoTriangle
                   /\ key(triangles[found]) = key(triangles[k])

C8_Witness ==
    /\ translations = 1
    /\ query # NoQuery
    /\ \E k \in 1..Len(triangles) :
        /\ triangles[k].type = "minor"
        /\ <<triangles[k].center.x, triangles[k].center.z>> = query
        /\ found = k

\* C9: when no triangle contains the point, findTriangleAtPosition returns
\* null, and the checkPlayerPosition that got null changes neither the
\* tracked triangle, the highlight, the display nor the playing voices; a
\* point far outside the lattice yields null.
C9_NoMatch ==
    [][/\ (query' \in FarPoints) => (found' = NoTriangle)
       /\ (located' = NoTriangle) =>
              /\ event' = NoEvent
              /\ UNCHANGED <<currentTriangle, highlighted, display,
                             activeOscillators>>]_vars

\* the player has left the lattice after a region had been entered
C9_Witness ==
    /\ located = NoTriangle
    /\ player.z = PlayerRangeZ
    /\ currentTriangle # NoTriangle
    /\ display.chordName = triangles[currentTriangle].chordName
    /\ event = NoEvent

\* C10: after any number (at least one) of invocations of the centering step,
\* every triangle's vertices and center are their untranslated positions
\* shifted by exactly one offset (-gridWidth*triangleSize/2,
\* -gridHeight*triHeight/2).
C10_TranslatedOnce ==
    translations >= 1 =>
        \A k \in 1..Len(triangles) :
            LET t  == triangles[k]
                t0 == generateTriangles(grid)[k]
            IN  /\ t.center.x = t0.center.x - (gridWidth * triWidth) \div 2
                /\ t.center.z = t0.center.z - (gridHeight * triHeight) \div 2
                /\ \A n \in 1..3 :
                    /\ t.vertices[n].x = t0.vertices[n].x - (gridWidth * triWidth) \div 2
                    /\ t.vertices[n].z = t0.vertices[n].z - (gridHeight * triHeight) \div 2

\* C11: once the centering translation has been applied, the lattice is
\* centered at the origin: the midpoint of the extent of all vertex positions
\* is (0, 0), that is, the least and the greatest x add up to 0 and so do the
\* least and the greatest z.
C11_xs == {triangles[k].vertices[n].x : k \in 1..Len(triangles), n \in 1..3}

C11_zs == {triangles[k].vertices[n].z : k \in 1..Len(triangles), n \in 1..3}

C11_least(S) == CHOOSE m \in S : \A n \in S : m <= n

C11_greatest(S) == CHOOSE m \in S : \A n \in S : m >= n

C11_Centered ==
    translations = 1 =>
        /\ C11_least(C11_xs) + C11_greatest(C11_xs) = 0
        /\ C11_least(C11_zs) + C11_greatest(C11_zs) = 0

\* C12: point location is invariant under translation: with every vertex and
\* center of the list moved by (dx, dz), the query at (x + dx, z + dz) locates
\* the triangle with the same (row, col, type) as the query at (x, z) on the
\* list as it is, or null in both cases; so it is for the shift that
\* createTonnetzGrid applies.
C12_translate(tris, dx, dz) ==
    [k \in 1..Len(tris) |->
        [tris[k] EXCEPT
            !.center = [x |-> @.x + dx, z |-> @.z + dz],
            !.vertices = [i \in 1..Len(@) |->
                             [@[i] EXCEPT !.x = @ + dx, !.z = @ + dz]]]]

\* the (row, col, type) located at (x, z), or the empty tuple for null
C12_locate(tris, x, z) ==
    LET k == findTriangleAtPosition(tris, x, z)
    IN  IF k = NoTriangle THEN <<>> ELSE key(tris[k])

C12_Shifts == {<<0, -1>>, <<-7, 5>>}

C12_TranslationInvariance ==
    query # NoQuery =>
        LET here == IF found = NoTriangle THEN <<>> ELSE key(triangles[found])
        IN  /\ \A d \in C12_Shifts :
                C12_locate(C12_translate(triangles, d[1], d[2]),
                           query[1] + d[1], query[2] + d[2]) = here
            /\ C12_locate(createTonnetzGrid(triangles),
                          query[1] + offsetX, query[2] + offsetZ) = here

\* a point of the translated lattice that lies in several triangles, and a
\* point outside every triangle
C12_Witness ==
    /\ translations = 1
    /\ query # NoQuery
    /\ found # NoTriangle
    /\ \E j \in (found + 1)..Len(triangles) :
           pointInTriangle(query[1], query[2], triangles[j])
    /\ C12_locate(C12_translate(triangles, -7, 5), query[1] - 7, query[2] + 5)
           = key(triangles[found])

\* C13: every triangle vertex that comes from grid cell (row, col) has, before
\* the translation, the position (col*triangleSize + row*triangleSize/2,
\* row*triangleSize*sqrt(3)/2), which is (2*col*triangleSize +
\* row*triangleSize, row*triangleSize) in the units of the model; in every
\* state all vertices that come from one cell lie at the same point, the one
\* the rule gives relative to the vertex of cell (0, 0).
C13_cellOf(t, n) ==
    IF t.type = "major"
    THEN <<<<t.row, t.col>>, <<t.row, t.col + 1>>, <<t.row + 1, t.col>>>>[n]
    ELSE <<<<t.row + 1, t.col>>, <<t.row, t.col + 1>>,
           <<t.row + 1, t.col + 1>>>>[n]

C13_rule(cell) ==
    [x |-> 2 * cell[2] * triangleSize + cell[1] * triangleSize,
     z |-> cell[1] * triangleSize]

C13_VertexRule ==
    \A k \in 1..Len(triangles) : \A n \in 1..3 :
        LET v == triangles[k].vertices[n]
            p == C13_rule(C13_cellOf(triangles[k], n))
        IN  /\ translations = 0 => (v.x = p.x /\ v.z = p.z)
            /\ v.x - latticeOrigin.x = p.x
            /\ v.z - latticeOrigin.z = p.z

\* the vertex of cell (2, 1), shared across the boundary of rows 1 and 2
C13_Witness ==
    /\ translations = 0
    /\ LET a == triangles[indexOf(1, 1, "minor")].vertices[1]
           b == triangles[indexOf(2, 1, "major")].vertices[1]
           c == triangles[indexOf(2, 0, "major")].vertices[2]
       IN  /\ <<a.x, a.z>> = <<12, 6>>
           /\ <<b.x, b.z>> = <<12, 6>>
           /\ <<c.x, c.z>> = <<12, 6>>

\* C14: the center of every triangle is the arithmetic mean of its three
\* vertex positions, 3*center.x = sum of the vertex x and 3*center.z = sum of
\* the vertex z, before and after the centering translation.
C14_CenterIsMean ==
    \A k \in 1..Len(triangles) :
        LET t == triangles[k]
        IN  /\ 3 * t.center.x
                   = t.vertices[1].x + t.vertices[2].x + t.vertices[3].x
            /\ 3 * t.center.z
                   = t.vertices[1].z + t.vertices[2].z + t.vertices[3].z

\* the translated triangle of cell (0, 0): vertices (-36,-12), (-30,-12),
\* (-33,-9)
C14_Witness ==
    /\ translations = 1
    /\ LET t == triangles[indexOf(0, 0, "major")]
       IN  /\ <<t.center.x, t.center.z>> = <<-33, -11>>
           /\ t.vertices[1].x + t.vertices[2].x + t.vertices[3].x = -99
           /\ t.vertices[1].z + t.vertices[2].z + t.vertices[3].z = -33

\* C15: a position update emits a region-changed event (playChord with the
\* located triangle's 3-note chord, its chordName on the display, its
\* highlight) if and only if the located triangle differs by (row, col, type)
\* from the tracked region; an update that locates the tracked region again
\* emits nothing and leaves the tracked region, the highlight, the display
\* and the voices as they are; the voices change on region changes only.
C15_sameRegion(a, b) ==
    /\ a # NoTriangle
    /\ b # NoTriangle
    /\ key(triangles[a]) = key(triangles[b])

C15_outputs == <<currentTriangle, highlighted, display, activeOscillators>>

C15_RegionChange ==
    [][/\ (located' \notin {NoUpdate, NoTriangle}) => currentTriangle' = located'
       /\ (C15_outputs' # C15_outputs \/ (event' # event /\ event' # NoEvent))
            => /\ located' \notin {NoUpdate, NoTriangle}
               /\ ~C15_sameRegion(located', currentTriangle)
               /\ currentTriangle' = located'
               /\ LET t == triangles[located']
                  IN  /\ Len(t.chord) = 3
                      /\ event' = [chord |-> t.chord, chordName |-> t.chordName,
                                   highlight |-> located']
                      /\ display'.chordName = t.chordName
                      /\ highlighted' = {located'}
                      /\ activeOscillators' =
                             IF initialized THEN t.chord ELSE activeOscillators
       /\ (player # NoPlayer /\ player' # player /\ located' # NoTriangle)
            => IF C15_sameRegion(located', currentTriangle)
               THEN event' = NoEvent /\ UNCHANGED C15_outputs
               ELSE event' # NoEvent /\ currentTriangle' # currentTriangle]_vars

\* the player has moved from the triangle it started in into another one
\* while the audio was on
C15_Witness ==
    /\ initialized
    /\ currentTriangle # NoTriangle
    /\ located = currentTriangle
    /\ event # NoEvent
    /\ event.highlight = currentTriangle
    /\ activeOscillators = triangles[currentTriangle].chord
    /\ <<player.x, player.z>> # <<0, 0>>
    /\ ~pointInTriangle(0, 0, triangles[currentTriangle])

\* C16: after every position update the tracked region is the located
\* triangle when one was found and no region (null) when none was found.
C16_TrackedRegion ==
    located # NoUpdate => currentTriangle = located

\* C17: the pitch class lattice is periodic: pitchClass(row + 3, col) =
\* pitchClass(row, col) and pitchClass(row, col + 12) = pitchClass(row, col),
\* and the 12 cells col..col+11 of a row carry 12 distinct pitch classes, so
\* no smaller column period exists; in the stored grid and for the rule
\* outside of it.
C17_Periodicity ==
    /\ \A row \in 0..(gridHeight - 3) : \A col \in 0..gridWidth :
           grid[row + 3][col].pitchClass = grid[row][col].pitchClass
    /\ \A row \in 0..gridHeight : \A col \in 0..(gridWidth - 12) :
           grid[row][col + 12].pitchClass = grid[row][col].pitchClass
    /\ \A row \in 0..gridHeight : \A col \in 0..(gridWidth - 11) :
           Cardinality({grid[row][col + i].pitchClass : i \in 0..11}) = 12
    /\ \A row \in (0 - PeriodRange)..PeriodRange :
       \A col \in (0 - PeriodRange)..PeriodRange :
           /\ pitchClassAt(row + 3, col) = pitchClassAt(row, col)
           /\ pitchClassAt(row, col + 12) = pitchClassAt(row, col)
           /\ Cardinality({pitchClassAt(row, col + i) : i \in 0..11}) = 12

\* rows 5 and 8 agree, columns 0 and 12 agree, and row 1 runs through all
\* twelve pitch classes in its first twelve cells
C17_Witness ==
    /\ grid[5][7].pitchClass = 9
    /\ grid[8][7].pitchClass = 9
    /\ grid[2][0].pitchClass = 8
    /\ grid[2][12].pitchClass = 8
    /\ {grid[1][col].pitchClass : col \in 0..11} = 0..11

\* C18: there is one note name spelling: for every pitch class 0..11 the
\* table behind getNoteName (pitchClassToName) and the table behind
\* getChordName (noteNames) give the same name, so for every triangle
\* getChordName(chord, type) is the stored chordName and every vertex's
\* noteName is getNoteName of its pitchClass.
C18_OneSpelling ==
    /\ Len(noteNames) = 12
    /\ \A pc \in 0..11 : getNoteName(pc) = noteNames[pc + 1]
    /\ \A k \in 1..Len(triangles) :
        LET t == triangles[k]
        IN  /\ getChordName(t.chord, t.type) = t.chordName
            /\ \A n \in 1..3 :
                   t.vertices[n].noteName = getNoteName(t.vertices[n].pitchClass)

\* a minor and a major triangle whose root is spelled with a flat
C18_Witness ==
    \E k, m \in 1..Len(triangles) :
        /\ triangles[k].chordName = "Abm"
        /\ getChordName(triangles[k].chord, triangles[k].type) = "Abm"
        /\ triangles[k].vertices[1].noteName = "Ab"
        /\ triangles[m].chordName = "Eb"
        /\ getChordName(triangles[m].chord, triangles[m].type) = "Eb"

\* C19: for every grid cell (row, col) with pitch class pc, getMajorTriad
\* returns the three MIDI notes 60 + pc, 60 + ((pc + 4) mod 12) and
\* 60 + ((pc + 7) mod 12), and getMinorTriad returns 60 + pc,
\* 60 + ((pc + 3) mod 12) and 60 + ((pc + 7) mod 12).
C19_Triads ==
    triad # NoQuery =>
        LET pc    == grid[triad.row][triad.col].pitchClass
            third == IF triad.type = "major" THEN 4 ELSE 3
        IN  triad.notes = <<JsNumber(60 + pc),
                            JsNumber(60 + ((pc + third) % 12)),
                            JsNumber(60 + ((pc + 7) % 12))>>

\* the 12 entries of the note name table
C20_Names == {pitchClassToName[i] : i \in 1..Len(pitchClassToName)}

\* every noteName stored in the grid and in the triangle vertices is one of
\* the 12 table entries
C20_storedNames ==
    /\ \A row \in 0..gridHeight : \A col \in 0..gridWidth :
           grid[row][col].noteName \in C20_Names
    /\ \A k \in 1..Len(triangles) : \A n \in 1..3 :
           triangles[k].vertices[n].noteName \in C20_Names

C21_pitchClasses(t) == {t.chord[n] % 12 : n \in 1..3}

C21_points(t) == {<<t.vertices[n].x, t.vertices[n].z>> : n \in 1..3}

\* two vertex positions, that is one edge, and two pitch classes in common
C21_adjacent(a, b) ==
    /\ Cardinality(C21_points(a) \cap C21_points(b)) = 2
    /\ Cardinality(C21_pitchClasses(a)) = 3
    /\ Cardinality(C21_pitchClasses(b)) = 3
    /\ Cardinality(C21_pitchClasses(a) \cap C21_pitchClasses(b)) = 2

C21_SharedNotes ==
    \A c \in Cells :
        LET row   == c[1]
            col   == c[2]
            minor == triangles[indexOf(row, col, "minor")]
        IN  /\ C21_adjacent(triangles[indexOf(row, col, "major")], minor)
            /\ col + 1 < gridWidth =>
                   C21_adjacent(minor, triangles[indexOf(row, col + 1, "major")])
            /\ row + 1 < gridHeight =>
                   C21_adjacent(minor, triangles[indexOf(row + 1, col, "major")])

\* Em of cell (0, 0) shares E and B with the E major triangle above it, and
\* G and B with the G major triangle to its right
C21_Witness ==
    /\ translations = 1
    /\ triangles[indexOf(0, 0, "minor")].chord = <<64, 67, 71>>
    /\ triangles[indexOf(1, 0, "major")].chord = <<64, 68, 71>>
    /\ triangles[indexOf(0, 1, "major")].chord = <<67, 71, 62>>
    /\ C21_points(triangles[indexOf(0, 0, "minor")])
           \cap C21_points(triangles[indexOf(1, 0, "major")])
         = {<<-33, -9>>, <<-27, -9>>}

\* C22: the list holds exactly 2*gridWidth*gridHeight triangles, every
\* (row, col, type) key occurs exactly once, and the centering step keeps
\* every triangle at its list position; so the reference comparison of
\* checkPlayerPosition between the located and the tracked triangle, and the
\* identity test of highlightTriangle, answer as the comparison of the
\* (row, col, type) keys does.
C22_keys == {key(triangles[k]) : k \in 1..Len(triangles)}

C22_sameKey(a, b) == key(triangles[a]) = key(triangles[b])

C22_uniqueKeys ==
    /\ Len(triangles) = 2 * gridWidth * gridHeight
    /\ Cardinality(C22_keys) = Len(triangles)
    /\ C22_keys = {<<c[1], c[2], type>> :
                       c \in Cells, type \in {"major", "minor"}}

C22_KeyIdentity ==
    /\ [](/\ C22_uniqueKeys
          /\ currentTriangle # NoTriangle =>
                 {k \in 1..Len(triangles) : C22_sameKey(k, currentTriangle)}
                     = highlighted)
    /\ [][/\ \A k \in 1..Len(triangles) :
                 key(triangles'[k]) = key(triangles[k])
          /\ (located' \notin {NoUpdate, NoTriangle}
                 /\ currentTriangle # NoTriangle)
               => ((located' = currentTriangle)
                       <=> C22_sameKey(located', currentTriangle))]_vars

\* a second region has been entered: the located triangle was compared with
\* a tracked triangle of another key
C22_Witness ==
    /\ translations = 1
    /\ event # NoEvent
    /\ currentTriangle # NoTriangle
    /\ key(triangles[currentTriangle]) # <<3, 3, "minor">>
    /\ {k \in 1..Len(triangles) : C22_sameKey(k, currentTriangle)}
           = {currentTriangle}
    /\ highlighted = {currentTriangle}

\* C23: once a region has been entered, after every position update the
\* displayed chord name is the tracked triangle's chordName, the displayed
\* notes are the note names of its vertices 0, 1, 2 in that order, and
\* exactly one triangle mesh is highlighted, the one at the tracked
\* triangle's list position.
C23_UiMirrorsRegion ==
    currentTriangle # NoTriangle =>
        LET t == triangles[currentTriangle]
        IN  /\ display.chordName = t.chordName
            /\ display.notes = t.vertices[1].noteName \o " - "
                                   \o t.vertices[2].noteName \o " - "
                                   \o t.vertices[3].noteName
            /\ Cardinality(highlighted) = 1
            /\ highlighted = {currentTriangle}

\* the player stands in the E minor triangle of cell (2, 4)
C23_Witness ==
    /\ currentTriangle = indexOf(2, 4, "minor")
    /\ located = currentTriangle
    /\ display.chordName = "Em"
    /\ display.notes = "E - G - B"
    /\ highlighted = {indexOf(2, 4, "minor")}

\* C24: the older, parity-offset layout has seams: the cells of an odd row
\* place the grid vertices (row+1, col) and (row+1, col+1) at another x than
\* the cells of the next row do (the cells of an even row agree with the next
\* row); in the lattice of game.js every vertex shared by two triangles,
\* within a row and across rows, is placed at one point.
C24_at(t, n) == <<t.vertices[n].x, t.vertices[n].z>>

C24_seamless ==
    \A c \in Cells :
        LET row   == c[1]
            col   == c[2]
            major == triangles[indexOf(row, col, "major")]
            minor == triangles[indexOf(row, col, "minor")]
        IN  /\ C24_at(minor, 1) = C24_at(major, 3)
            /\ C24_at(minor, 2) = C24_at(major, 2)
            /\ col + 1 < gridWidth =>
                   LET right == triangles[indexOf(row, col + 1, "major")]
                   IN  /\ C24_at(right, 1) = C24_at(major, 2)
                       /\ C24_at(right, 3) = C24_at(minor, 3)
            /\ row + 1 < gridHeight =>
                   LET above == triangles[indexOf(row + 1, col, "major")]
                   IN  /\ C24_at(above, 1) = C24_at(major, 3)
                       /\ C24_at(above, 2) = C24_at(minor, 3)

C24_ParitySeams ==
    /\ (cellCall # NoQuery /\ cellCall.row + 1 < gridHeight) =>
           LET here  == cellCall.vertices
               above == parityVertices(cellCall.row + 1, cellCall.col)
           IN  /\ here.v2.z = above.v0.z
               /\ here.v3.z = above.v1.z
               /\ IF cellCall.row % 2 = 1
                  THEN here.v2.x # above.v0.x /\ here.v3.x # above.v1.x
                  ELSE here.v2.x = above.v0.x /\ here.v3.x = above.v1.x
    /\ C24_seamless

\* cell (1, 0) of the older layout puts grid vertex (2, 0) at x = triWidth,
\* cell (2, 0) puts it at x = 0
C24_Witness ==
    /\ cellCall # NoQuery
    /\ cellCall.row = 1
    /\ cellCall.col = 0
    /\ cellCall.vertices.v2 = [x |-> triWidth, z |-> 2 * triHeight]
    /\ parityVertices(2, 0).v0 = [x |-> 0, z |-> 2 * triHeight]

\* C25: the tessellation has no gaps and no overlaps: findTriangleAtPosition
\* returns a triangle for every point of the closed parallelogram spanned by
\* the grid vertices (0,0), (0,gridWidth), (gridHeight,0) and
\* (gridHeight,gridWidth), and null for every point outside of it; a point
\* strictly inside one triangle lies in no other triangle, so it is the
\* located one whatever the list order.
C25_inParallelogram(x, z) ==
    LET dx == x - latticeOrigin.x
        dz == z - latticeOrigin.z
        \* how far the point is to the right of the slanted edge through
        \* vertex (0, 0), times triHeight
        along == dx * triHeight - dz * (triWidth \div 2)
    IN  /\ 0 <= dz
        /\ dz <= gridHeight * triHeight
        /\ 0 <= along
        /\ along <= gridWidth * triWidth * triHeight

C25_strictlyInside(p, v) ==
    LET d1 == C6_cross(p, v[1], v[2])
        d2 == C6_cross(p, v[2], v[3])
        d3 == C6_cross(p, v[3], v[1])
    IN  (d1 > 0 /\ d2 > 0 /\ d3 > 0) \/ (d1 < 0 /\ d2 < 0 /\ d3 < 0)

C25_Tiling ==
    query # NoQuery =>
        LET p == [x |-> query[1], z |-> query[2]]
        IN  /\ (found # NoTriangle) <=> C25_inParallelogram(p.x, p.z)
            /\ \A k \in 1..Len(triangles) :
                   C25_strictlyInside(p, triangles[k].vertices)
                       => /\ found = k
                          /\ \A j \in 1..Len(triangles) :
                                 j # k => ~pointInTriangle(p.x, p.z, triangles[j])

\* a point strictly inside the last triangle of the translated list that is
\* not its center
C25_Witness ==
    /\ translations = 1
    /\ query # NoQuery
    /\ found = Len(triangles)
    /\ C25_strictlyInside([x |-> query[1], z |-> query[2]],
                          triangles[found].vertices)
    /\ query # <<triangles[found].center.x, triangles[found].center.z>>

\* C26: the list of playing voices does not grow: after any sequence of
\* init, playChord and stopAll calls it is empty or holds exactly the voices
\* of the most recent playChord call made after init; a playChord call
\* replaces the voices held before, and before init no voice is held.
C26_BoundedVoices ==
    /\ [](/\ activeOscillators = <<>>
             \/ (played # NoEvent /\ activeOscillators = played)
          /\ ~initialized => (activeOscillators = <<>> /\ played = NoEvent)
          /\ Len(activeOscillators) <= MaxChordLen)
    /\ [][/\ (initialized /\ played' # played) => activeOscillators' = played'
          /\ ~initialized => activeOscillators' = activeOscillators]_vars

\* the voices of a three note chord with a repeated note are held
C26_Witness ==
    /\ initialized
    /\ played = <<baseOctave + majorThirdInterval, baseOctave,
                  baseOctave + majorThirdInterval>>
    /\ activeOscillators = played

\* C27: the start click interleaves with the update loop: an update that
\* enters a region before init() has run makes it the tracked region and
\* plays nothing; the click plays nothing; afterwards no update sounds a
\* voice while the tracked region stays the same, the first chord sounds
\* when an update locates another triangle; init() creates one AudioContext,
\* a second click creates none.
C27_ClickInterleaving ==
    /\ [](/\ audioContext = (IF initialized THEN 1 ELSE 0)
          /\ ~initialized => activeOscillators = <<>>)
    /\ [][/\ (~initialized /\ currentTriangle' # currentTriangle)
               => /\ currentTriangle' = located'
                  /\ event'.chord = triangles[located'].chord
                  /\ UNCHANGED <<activeOscillators, played>>
          /\ initialized' # initialized
               => UNCHANGED <<activeOscillators, played, currentTriangle>>
          /\ currentTriangle' = currentTriangle
               => UNCHANGED <<activeOscillators, played>>
          /\ (initialized /\ currentTriangle' # currentTriangle)
               => activeOscillators' = triangles[located'].chord
          /\ initialized => UNCHANGED <<initialized, audioContext>>]_vars

\* audio is on, a region entered before the click is tracked, and no voice
\* has sounded
C27_Witness ==
    /\ initialized
    /\ audioContext = 1
    /\ currentTriangle # NoTriangle
    /\ located = currentTriangle
    /\ event = NoEvent
    /\ played = NoEvent
    /\ activeOscillators = <<>>
    /\ player # [x |-> 0, z |-> 0]

=============================================================================
